---- MODULE Spec2Model ----
(***************************************************************************)
(* The outbound AI-call governor of the email client: the sliding-window   *)
(* rate limiter, the circuit breaker and the response cache of             *)
(* src/lib/ai/gemini.ts, and the stale-while-revalidate summarize route    *)
(* (the second file of src/unnamed/part_006).                              *)
(*                                                                         *)
(* Time is the value of Date.now() in milliseconds.  A handler runs        *)
(* without interruption between two awaits (the runtime is single          *)
(* threaded), so every action below is one such run: the synchronous       *)
(* prefix of generateText up to the upstream call, the continuation after  *)
(* the upstream call resolved, the pacing guard of POST up to the read of  *)
(* the body, and the rest of POST up to the upstream call.                 *)
(***************************************************************************)
EXTENDS Integers, Sequences, FiniteSets, TLC

\* ---------------------------------------------------------------- bounds
\* number of distinct cache keys (prompt + options) callers use
NumKeys == 2
\* upstream calls issued in one run of the concurrent governor
MaxIssued == 5
\* upstream calls issued in one run of the burst scenario
MaxBurst == 11
\* upstream calls awaiting their result at one time in the concurrent governor
MaxInFlight == 2
\* clock advances in one run of the sequential scenario
MaxSeqTicks == 2
\* clock advances in one run
MaxTicks == 2
\* calls of the sequential scenario
MaxSeqCalls == 12
\* summarize requests in one run of the route
MaxPosts == 3
\* upstream calls issued in one run of the route
MaxSumIssued == 2
\* summarize requests, upstream calls and clock advances in one run of the route
\* with other callers of generateText
MaxBusyPosts == 3
MaxBusyIssued == 4
MaxBusyTicks == 2
\* upstream calls awaiting their result at one time in that run
MaxBusyInFlight == 1
\* clock advances in one run of the route
MaxSumTicks == 3
\* summarize requests awaiting their body at one time
MaxPending == 1
\* summarize requests, upstream calls and clock advances in one run of the route
\* with malformed bodies and with another caller that opens the breaker
MaxErrPosts == 2
MaxErrIssued == 5
MaxErrTicks == 2
\* summarize requests, upstream calls and clock advances in one run of the route
\* with other callers that fill the rate window
MaxWinPosts == 2
MaxWinIssued == 11
MaxWinTicks == 1
\* upstream calls issued in one run of the cache scenario
MaxCacheCalls == 2
\* upstream calls awaiting their result at one time in the cache scenario
MaxCacheInFlight == 2
\* clock advances in one run of the cache scenario
MaxCacheTicks == 2
\* upstream calls issued, upstream calls awaiting their result at one time and
\* clock advances in one run of the failure scenario
MaxFailIssued == 3
MaxFailInFlight == 2
MaxFailTicks == 1
\* the four routes: summarize requests, upstream calls and clock advances
MaxAuthPosts == 2
MaxAuthIssued == 1
MaxAuthTicks == 1
\* the generation parameters: upstream calls issued, upstream calls awaiting
\* their result at one time and clock advances
MaxConfigIssued == 3
MaxConfigInFlight == 2
MaxConfigTicks == 1
\* cache hits under a tripped breaker: upstream calls issued, upstream calls
\* awaiting their result at one time and clock advances
MaxHitIssued == 4
MaxHitInFlight == 1
MaxHitTicks == 1
\* the ages of an entry: summarize requests, upstream calls issued, upstream
\* calls awaiting their result at one time and clock advances
MaxAgePosts == 2
MaxAgeIssued == 2
MaxAgeInFlight == 1
MaxAgeTicks == 3
\* the pacing guard: summarize requests, upstream calls issued and clock
\* advances
MaxPacePosts == 9
MaxPaceIssued == 1
MaxPaceTicks == 2
\* the breaker under concurrent failures: upstream calls issued, upstream
\* calls awaiting their result at one time and clock advances
MaxTripIssued == 6
MaxTripInFlight == 5
MaxTripTicks == 2
\* denials: upstream calls issued and clock advances
MaxDenyCalls == 11
MaxDenyTicks == 1
\* the caches: summarize requests, upstream calls issued and clock advances
MaxStorePosts == 2
MaxStoreIssued == 3
MaxStoreTicks == 1
\* Date.now() when the process starts, in ms
StartTime == 100000

\* ------------------------------------------------- constants of gemini.ts
windowSize == 60000
maxRequests == 10
resetTimeout == 30000
failureThreshold == 3
CACHE_DURATION == 60 * 60 * 1000

\* lines 102-110: the generationConfig proModel is built with; temperatures
\* are counted in tenths, 5 is 0.5
DefaultTemperature == 5
DefaultMaxOutputTokens == 2048

\* ------------------------------------- constants of the summarize route
\* CACHE_DURATION and STALE_WHILE_REVALIDATE of the route, in seconds
SUMMARY_CACHE_DURATION == 60 * 60
STALE_WHILE_REVALIDATE == 60 * 60 * 24
MIN_INTERVAL == 1000
MAX_INTERVAL == 10000

Keys == 1..NumKeys
\* the keys of the sequential scenario: every call has a key of its own
SeqKeys == 1..MaxSeqCalls
AllKeys == Keys \cup SeqKeys
\* what response.text() may return: the empty string is a possible text
Texts == {"", "s1", "s2"}
\* how an upstream call may fail
Failures == {"429", "apikey", "other"}
Origins == {"direct", "post", "refresh"}
NoEntry == [present |-> FALSE]
NoValidator == <<"none">>

VARIABLES
  now,              \* Date.now()
  requests,         \* rateLimit.requests
  failures,         \* circuitBreaker.failures
  lastFailureTime,  \* circuitBreaker.lastFailureTime
  isOpen,           \* circuitBreaker.isOpen
  responseCache,    \* responseCache of gemini.ts: key -> {response, timestamp}
  inflight,         \* upstream calls awaiting generateContent: <<key, origin>> -> count
  cache,            \* cache of the summarize route: key -> {summary, timestamp, etag}
  lastRequestTime,  \* pacing guard of the route
  currentInterval,  \* pacing guard of the route, as a fraction <<num, den>> of ms
  pending,          \* summarize requests past the guard, awaiting request.json()
  issued,           \* history: the times of the upstream generateContent calls
  calls,            \* history: upstream generateContent calls so far
  tripped,          \* history: the breaker opened and no check has found its cooldown over
  streak,           \* history: failures recorded since the last recorded success
  ticks,            \* history: clock advances so far
  posts,            \* history: summarize requests so far
  writer,           \* history: who wrote the entry of the route's cache: key -> origin
  lapsed,           \* history: a background refresh failed or was denied since the
                    \* entry of the key was stored: key -> BOOLEAN
  generationConfig, \* proModel.generationConfig: temperature (in tenths) and
                    \* maxOutputTokens
  session,          \* whether the client holds a session (next-auth)
  ev                \* history: what the last step did

vars == <<now, requests, failures, lastFailureTime, isOpen, responseCache, inflight,
          cache, lastRequestTime, currentInterval, pending, issued, calls, tripped, streak,
          ticks, posts, writer, lapsed, generationConfig, session, ev>>
routeVars == <<cache, lastRequestTime, currentInterval, pending, posts, writer, lapsed>>

Max(a, b) == IF a >= b THEN a ELSE b
Min(a, b) == IF a <= b THEN a ELSE b

\* Array.prototype.filter keeps the order of the kept elements
RECURSIVE Filter(_, _)
Filter(s, lo) ==
  IF s = <<>> THEN <<>>
  ELSE IF Head(s) > lo THEN <<Head(s)>> \o Filter(Tail(s), lo)
       ELSE Filter(Tail(s), lo)

\* ------------------------------------------------------ checkRateLimit
\* line 35: the window after pruning (PruneLoose: with >= for >)
PruneLoose(rq, t) == Filter(rq, t - windowSize - 1)
Prune(rq, t) == Filter(rq, t - windowSize)

\* line 39: the cooldown of the open breaker is over
CooldownOver(lft, t) == (t - lft) > resetTimeout

\* lines 47-51: the pruned window is full
WindowFull(pruned) == Len(pruned) >= maxRequests

\* lines 31-55: the result of the check and the state it leaves
CheckRateLimit(rq, f, lft, open, t) ==
  LET pruned == Prune(rq, t) IN
  IF open /\ ~CooldownOver(lft, t)
  THEN [allowed |-> FALSE, retryAfter |-> resetTimeout - (t - lft), cause |-> "breaker",
        requests |-> pruned, failures |-> f, isOpen |-> open]
  ELSE LET f2 == IF open THEN 0 ELSE f IN
       IF WindowFull(pruned)
       THEN [allowed |-> FALSE, retryAfter |-> Max(0, pruned[1] + windowSize - t),
             cause |-> "window", requests |-> pruned, failures |-> f2, isOpen |-> FALSE]
       ELSE [allowed |-> TRUE, retryAfter |-> 0, cause |-> "none",
             requests |-> pruned, failures |-> f2, isOpen |-> FALSE]

\* ---------------------------------------------------------- addRequest
\* lines 58-62: a success.  AfterSuccessCloses: a success that closes the
\* breaker whatever the counter is left at
AfterSuccessCloses(f, open) == [failures |-> Max(0, f - 1), isOpen |-> FALSE]
AfterSuccess(f, open) ==
  LET f2 == Max(0, f - 1) IN [failures |-> f2, isOpen |-> IF f2 = 0 THEN FALSE ELSE open]

\* lines 63-69: a failure
AfterFailure(f, open) ==
  [failures |-> f + 1, isOpen |-> IF f + 1 >= failureThreshold THEN TRUE ELSE open]

\* lines 57-72
AddRequest(success, rq, f, lft, open, t) ==
  LET b == IF success THEN AfterSuccess(f, open) ELSE AfterFailure(f, open) IN
  [requests |-> Append(rq, t), failures |-> b.failures, isOpen |-> b.isOpen,
   lastFailureTime |-> IF success THEN lft ELSE t]

\* ------------------------------------------------ getTimeUntilNextRequest
RECURSIVE Pow(_, _)
Pow(b, n) == IF n = 0 THEN 1 ELSE b * Pow(b, n - 1)

\* lines 74-88: baseWait * 1.5^failures, as the fraction <<num, den>>
GetTimeUntilNextRequest(rq, f, open, t) ==
  IF open THEN <<resetTimeout, 1>>
  ELSE IF Len(rq) < maxRequests THEN <<0, 1>>
  ELSE <<Max(0, rq[1] + windowSize - t) * Pow(3, f), Pow(2, f)>>

\* -------------------------------------------------------- generateText
\* lines 125-126: the entry of the key is present and younger than CACHE_DURATION
\* the same with CACHE_DURATION taken as seconds
FreshInSeconds(c, t) == c.present /\ t - c.timestamp < 60 * 60
Fresh(c, t) == c.present /\ t - c.timestamp < CACHE_DURATION

\* an option the caller left out (undefined)
Undefined == -1
\* generateText(prompt) with no options: both are undefined
NoOptions == [temperature |-> Undefined, maxTokens |-> Undefined]
\* the truth value of an option in a condition or under ||: undefined and 0
\* are falsy
Truthy(x) == x # Undefined /\ x # 0

\* line 124: the cache key is the text "pro:T:M:prompt", where T and M are the
\* options as decimal numerals, or "default" for a falsy option.  The first
\* three fields hold no colon, so the text and the tuple of its fields
\* determine each other
cacheKey(prompt, temperature, maxTokens) ==
  <<"pro",
    IF Truthy(temperature) THEN ToString(temperature) ELSE "default",
    IF Truthy(maxTokens) THEN ToString(maxTokens) ELSE "default",
    prompt>>

\* lines 139-145: selectedModel is proModel itself, the one object of the
\* module; a truthy option is written into its generationConfig, and a falsy
\* one leaves what is there
Configure(config, options) ==
  [temperature |-> IF Truthy(options.temperature)
                   THEN options.temperature ELSE config.temperature,
   maxOutputTokens |-> IF Truthy(options.maxTokens)
                       THEN options.maxTokens ELSE config.maxOutputTokens]

\* lines 124-147: generateText up to the upstream call.  GenSyncCheckFirst is
\* a generateText that asks for admission before it looks into the cache
GenSyncCheckFirst(k) ==
  LET c == responseCache[k]
      r == CheckRateLimit(requests, failures, lastFailureTime, isOpen, now) IN
  IF r.allowed /\ Fresh(c, now)
  THEN [outcome |-> "cached", text |-> c.text, retryAfter |-> 0, cause |-> "none",
        requests |-> r.requests, failures |-> r.failures, isOpen |-> r.isOpen]
  ELSE [outcome |-> IF r.allowed THEN "issued" ELSE "denied", text |-> "",
        retryAfter |-> r.retryAfter, cause |-> r.cause,
        requests |-> r.requests, failures |-> r.failures, isOpen |-> r.isOpen]
GenSync(k) ==
  LET c == responseCache[k] IN
  IF Fresh(c, now)
  THEN [outcome |-> "cached", text |-> c.text, retryAfter |-> 0, cause |-> "none",
        requests |-> requests, failures |-> failures, isOpen |-> isOpen]
  ELSE LET r == CheckRateLimit(requests, failures, lastFailureTime, isOpen, now) IN
       [outcome |-> IF r.allowed THEN "issued" ELSE "denied", text |-> "",
        retryAfter |-> r.retryAfter, cause |-> r.cause,
        requests |-> r.requests, failures |-> r.failures, isOpen |-> r.isOpen]

\* lines 155-184: the promise of generateText rejects on the failure res. The
\* catch block takes every exception of the try block, and none of its three
\* branches (status 429, a message that names the API key, anything else)
\* throws; RejectsUnclassified is a catch block that rethrows what it does not
\* classify
RejectsUnclassified(res) == res = "other"
Rejects(res) == FALSE

\* lines 147-184: generateText after the upstream call resolved
\* res is "ok" or one of Failures; txt is the text of a success
GenAfter(k, res, txt) ==
  IF res = "ok"
  THEN LET a == AddRequest(TRUE, requests, failures, lastFailureTime, isOpen, now) IN
       [hasText |-> TRUE, text |-> txt, error |-> "none", retryAfter |-> <<0, 1>>,
        rejected |-> FALSE,
        requests |-> a.requests, failures |-> a.failures, isOpen |-> a.isOpen,
        lastFailureTime |-> a.lastFailureTime,
        responseCache |-> [responseCache EXCEPT
                             ![k] = [present |-> TRUE, text |-> txt, timestamp |-> now]]]
  ELSE IF res = "429"
  THEN LET a == AddRequest(FALSE, requests, failures, lastFailureTime, isOpen, now) IN
       [hasText |-> FALSE, text |-> "", error |-> "Too many requests",
        rejected |-> Rejects(res),
        retryAfter |-> GetTimeUntilNextRequest(requests, failures, isOpen, now),
        requests |-> a.requests, failures |-> a.failures, isOpen |-> a.isOpen,
        lastFailureTime |-> a.lastFailureTime, responseCache |-> responseCache]
  ELSE IF res = "apikey"
  THEN [hasText |-> FALSE, text |-> "", error |-> "Invalid API key", retryAfter |-> <<0, 1>>,
        rejected |-> Rejects(res),
        requests |-> requests, failures |-> failures, isOpen |-> isOpen,
        lastFailureTime |-> lastFailureTime, responseCache |-> responseCache]
  ELSE LET a == AddRequest(FALSE, requests, failures, lastFailureTime, isOpen, now) IN
       [hasText |-> FALSE, text |-> "", error |-> "Failed to generate text",
        retryAfter |-> <<0, 1>>, rejected |-> Rejects(res),
        requests |-> a.requests, failures |-> a.failures, isOpen |-> a.isOpen,
        lastFailureTime |-> a.lastFailureTime, responseCache |-> responseCache]

\* ------------------------------------------------------------- the state
InitEv == [op |-> "init", time |-> StartTime]

Init ==
  /\ now = StartTime
  /\ requests = <<>>
  /\ failures = 0
  /\ lastFailureTime = 0
  /\ isOpen = FALSE
  /\ responseCache = [k \in AllKeys |-> NoEntry]
  /\ inflight = [c \in AllKeys \X Origins |-> 0]
  /\ cache = [k \in AllKeys |-> NoEntry]
  /\ lastRequestTime = 0
  /\ currentInterval = <<MIN_INTERVAL, 1>>
  /\ pending = {}
  /\ issued = <<>>
  /\ calls = 0
  /\ tripped = FALSE
  /\ streak = 0
  /\ ticks = 0
  /\ posts = 0
  /\ writer = [k \in AllKeys |-> "none"]
  /\ lapsed = [k \in AllKeys |-> FALSE]
  /\ generationConfig = [temperature |-> DefaultTemperature,
                         maxOutputTokens |-> DefaultMaxOutputTokens]
  /\ session = FALSE
  /\ ev = InitEv

InFlight == {c \in AllKeys \X Origins : inflight[c] > 0}

RECURSIVE SumOver(_)
SumOver(S) == IF S = {} THEN 0
              ELSE LET c == CHOOSE x \in S : TRUE IN inflight[c] + SumOver(S \ {c})
\* the number of upstream calls awaiting their result
InFlightCount == SumOver(InFlight)

\* what the event of a generateText call records: the state the call found
\* and what the call did.  probe: the call was admitted by a check that found
\* the breaker open and its cooldown over; afterProbe: the step before was
\* such a call, whose upstream call still awaits its result
GenEvent(k, options, g) ==
  [op |-> "generate", time |-> now, key |-> k, options |-> options,
   configBefore |-> generationConfig, outcome |-> g.outcome, text |-> g.text,
   retryAfter |-> g.retryAfter, cause |-> g.cause,
   freshBefore |-> responseCache[k].present
                     /\ now - responseCache[k].timestamp < CACHE_DURATION,
   cachedBefore |-> responseCache[k],
   openBefore |-> isOpen,
   failuresBefore |-> failures,
   requestsBefore |-> requests,
   sinceFailure |-> now - lastFailureTime,
   inWindowBefore |-> Cardinality({i \in 1..Len(requests) : requests[i] > now - windowSize}),
   callsBefore |-> calls,
   issuedInWindow |-> Cardinality({i \in 1..Len(issued) : issued[i] > now - windowSize}),
   trippedBefore |-> tripped,
   streakBefore |-> streak,
   inflightBefore |-> InFlightCount,
   probe |-> g.outcome = "issued" /\ isOpen /\ now - lastFailureTime > resetTimeout,
   afterProbe |-> ev.op = "generate" /\ ev.probe,
   afterDenial |-> ev.op = "generate" /\ ev.outcome = "denied",
   afterMiss |-> \/ ev.op = "generate" /\ ev.outcome = "denied" /\ ev.key = k
                 \/ /\ ev.op = "resolve" /\ ev.res # "ok" /\ ev.key = k
                    /\ ~Fresh(ev.cachedBefore, ev.time),
   denialAt |-> IF ev.op = "generate" /\ ev.outcome = "denied" THEN ev.time ELSE 0,
   denialRetryAfter |-> IF ev.op = "generate" /\ ev.outcome = "denied"
                        THEN ev.retryAfter ELSE 0,
   denialCause |-> IF ev.op = "generate" /\ ev.outcome = "denied"
                   THEN ev.cause ELSE "none"]

\* a caller calls generateText(prompt, options) with cache key k; at most bound
\* upstream calls are issued in a run and at most conc await their result at one
\* time; track says whether the history of issue times is kept
GenerateText(k, options, bound, conc, track) ==
  LET g == GenSync(k) IN
  /\ g.outcome = "issued" => (calls < bound /\ InFlightCount < conc)
  /\ requests' = g.requests
  /\ failures' = g.failures
  /\ isOpen' = g.isOpen
  /\ inflight' = IF g.outcome = "issued"
                 THEN [inflight EXCEPT ![<<k, "direct">>] = @ + 1] ELSE inflight
  /\ calls' = IF g.outcome = "issued" THEN calls + 1 ELSE calls
  /\ issued' = IF g.outcome = "issued" /\ track THEN Append(issued, now) ELSE issued
  /\ tripped' = IF g.outcome # "cached" /\ now - lastFailureTime > resetTimeout
                THEN FALSE ELSE tripped
  /\ generationConfig' = IF g.outcome = "issued"
                         THEN Configure(generationConfig, options)
                         ELSE generationConfig
  /\ ev' = GenEvent(k, options, g)
  /\ UNCHANGED <<now, lastFailureTime, responseCache, streak, ticks, session>>
  /\ UNCHANGED routeVars

\* a caller calls generateText(prompt) with cache key k and no options
Generate(k, bound, conc, track) == GenerateText(k, NoOptions, bound, conc, track)

\* ----------------------------------------------------- the summarize route
\* part_006 lines 267-285: the options the route passes to generateText for a
\* summary type; temperatures in tenths
getModelConfig(type) ==
  IF type = "brief" THEN [temperature |-> 3, maxTokens |-> 1024]
  ELSE IF type = "detailed" THEN [temperature |-> 5, maxTokens |-> 2048]
  ELSE [temperature |-> 2, maxTokens |-> 1024]

\* part_006 line 295-297: the md5 digest of the summary, one per summary
generateETag(summary) == <<"md5", summary>>
\* a request's If-None-Match is NoValidator or the etag of some summary; its body
\* is "ok" (valid), "badjson" (no JSON) or "badschema" (the schema rejects it)

\* part_006 lines 300-329: what the lookup returns and whether it evicts
\* c is the entry of the key, inm the request's validator, t is Date.now()
\* GetCachedResponseStrict: with < for <= in both comparisons of the age
GetCachedResponseStrict(c, inm, t) ==
  IF ~c.present THEN [found |-> FALSE, isStale |-> FALSE, evict |-> FALSE]
  ELSE IF inm # NoValidator /\ inm = c.etag
       THEN [found |-> FALSE, isStale |-> FALSE, evict |-> FALSE]
  ELSE IF t - c.timestamp >= SUMMARY_CACHE_DURATION * 1000
            /\ t - c.timestamp < STALE_WHILE_REVALIDATE * 1000
       THEN [found |-> TRUE, isStale |-> TRUE, evict |-> FALSE]
  ELSE IF t - c.timestamp < SUMMARY_CACHE_DURATION * 1000
       THEN [found |-> TRUE, isStale |-> FALSE, evict |-> FALSE]
  ELSE [found |-> FALSE, isStale |-> FALSE, evict |-> TRUE]
GetCachedResponse(c, inm, t) ==
  IF ~c.present THEN [found |-> FALSE, isStale |-> FALSE, evict |-> FALSE]
  ELSE IF inm # NoValidator /\ inm = c.etag
       THEN [found |-> FALSE, isStale |-> FALSE, evict |-> FALSE]
  ELSE IF t - c.timestamp > SUMMARY_CACHE_DURATION * 1000
            /\ t - c.timestamp <= STALE_WHILE_REVALIDATE * 1000
       THEN [found |-> TRUE, isStale |-> TRUE, evict |-> FALSE]
  ELSE IF t - c.timestamp <= SUMMARY_CACHE_DURATION * 1000
       THEN [found |-> TRUE, isStale |-> FALSE, evict |-> FALSE]
  ELSE [found |-> FALSE, isStale |-> FALSE, evict |-> TRUE]

\* part_006 lines 332-340: the entry cacheResponse stores
CacheResponse(old, summary, t) ==
  [present |-> TRUE, summary |-> summary, timestamp |-> t, etag |-> generateETag(summary)]

\* fractions <<num, den>> of a millisecond, in lowest terms
RECURSIVE GCD(_, _)
GCD(a, b) == IF b = 0 THEN a ELSE GCD(b, a % b)
Norm(q) == LET g == GCD(q[1], q[2]) IN <<q[1] \div g, q[2] \div g>>
\* Math.ceil(q / 1000)
CeilSeconds(q) == (q[1] + 1000 * q[2] - 1) \div (1000 * q[2])

\* part_006 line 347: Math.min(currentInterval * 1.5, MAX_INTERVAL)
\* GrowUncapped: currentInterval * 1.5 with no cap
GrowUncapped(q) == Norm(<<3 * q[1], 2 * q[2]>>)
Grow(q) == IF 3 * q[1] >= MAX_INTERVAL * 2 * q[2] THEN <<MAX_INTERVAL, 1>>
           ELSE Norm(<<3 * q[1], 2 * q[2]>>)
\* part_006 line 360: Math.max(MIN_INTERVAL, currentInterval * 0.8)
Shrink(q) == IF 4 * q[1] <= MIN_INTERVAL * 5 * q[2] THEN <<MIN_INTERVAL, 1>>
             ELSE Norm(<<4 * q[1], 5 * q[2]>>)

\* part_006 lines 401-415: the response to a generateText result with an error
ErrorResponse(error, retryAfter) ==
  [status |-> IF error = "Rate limit exceeded" THEN 429 ELSE 500,
   xcache |-> "none", summary |-> "", etag |-> NoValidator,
   hasRetryAfter |-> retryAfter[1] > 0,
   retryAfterHeader |-> IF retryAfter[1] > 0 THEN CeilSeconds(retryAfter) ELSE 0]
\* part_006 lines 417-425: the response to a result with neither error nor text
NoTextResponse ==
  [status |-> 500, xcache |-> "none", summary |-> "", etag |-> NoValidator,
   hasRetryAfter |-> FALSE, retryAfterHeader |-> 0]
\* part_006 lines 428-439 and 388-391: the response that carries a summary
SummaryResponse(summary, etag, xcache) ==
  [status |-> 200, xcache |-> xcache, summary |-> summary, etag |-> etag,
   hasRetryAfter |-> FALSE, retryAfterHeader |-> 0]
\* part_006 lines 443-459: the response to a body that cannot be used
BadBodyResponse(body) ==
  [status |-> IF body = "badschema" THEN 400 ELSE 500,
   xcache |-> "none", summary |-> "", etag |-> NoValidator,
   hasRetryAfter |-> FALSE, retryAfterHeader |-> 0]
\* no response yet: the handler awaits the upstream call
NoResponse ==
  [status |-> 0, xcache |-> "none", summary |-> "", etag |-> NoValidator,
   hasRetryAfter |-> FALSE, retryAfterHeader |-> 0]

\* part_006 lines 398-439: POST after generateText returned text (or none)
AfterText(txt, etag) ==
  IF txt = "" THEN NoTextResponse ELSE SummaryResponse(txt, etag, "MISS")

\* the age of an entry at time t, as the route's lookup classifies it
AgeClass(c, t) ==
  IF ~c.present THEN "none"
  ELSE IF t - c.timestamp <= SUMMARY_CACHE_DURATION * 1000 THEN "fresh"
  ELSE IF t - c.timestamp <= STALE_WHILE_REVALIDATE * 1000 THEN "stale"
  ELSE "expired"

\* part_006 lines 344-360: a summarize request arrives; the pacing guard either
\* rejects it or lets it read its body
PostArrive(k, inm, body, bound) ==
  LET r == [key |-> k, inm |-> inm, body |-> body] IN
  /\ posts < bound
  /\ posts' = posts + 1
  /\ IF (now - lastRequestTime) * currentInterval[2] < currentInterval[1]
     THEN /\ currentInterval' = Grow(currentInterval)
          /\ ev' = [op |-> "post", stage |-> "guard", time |-> now, key |-> k,
                    passed |-> FALSE, status |-> 429, hasRetryAfter |-> TRUE,
                    retryAfterHeader |-> CeilSeconds(Grow(currentInterval))]
          /\ UNCHANGED <<lastRequestTime, pending>>
     ELSE /\ r \notin pending
          /\ Cardinality(pending) < MaxPending
          /\ lastRequestTime' = now
          /\ currentInterval' = Shrink(currentInterval)
          /\ pending' = pending \cup {r}
          /\ ev' = [op |-> "post", stage |-> "guard", time |-> now, key |-> k,
                    passed |-> TRUE, status |-> 0, hasRetryAfter |-> FALSE,
                    retryAfterHeader |-> 0]
  /\ UNCHANGED <<now, requests, failures, lastFailureTime, isOpen, responseCache, inflight,
                 cache, issued, calls, tripped, streak, ticks, writer, lapsed,
                 generationConfig, session>>

\* what the event of a handled summarize request records
PostEvent(r, g, called, resp) ==
  [op |-> "post", stage |-> "handle", time |-> now, key |-> r.key, inm |-> r.inm,
   body |-> r.body, entryBefore |-> cache[r.key],
   writerBefore |-> writer[r.key], lapsedBefore |-> lapsed[r.key],
   inmMatch |-> cache[r.key].present /\ r.inm = cache[r.key].etag,
   age |-> AgeClass(cache[r.key], now),
   calledGenerate |-> called,
   gen |-> IF called THEN g.outcome ELSE "none",
   cause |-> IF called THEN g.cause ELSE "none",
   genRetryAfter |-> IF called THEN g.retryAfter ELSE 0,
   responded |-> resp.status # 0,
   status |-> resp.status, xcache |-> resp.xcache, summary |-> resp.summary,
   etag |-> resp.etag, hasRetryAfter |-> resp.hasRetryAfter,
   retryAfterHeader |-> resp.retryAfterHeader,
   callsBefore |-> calls]

\* part_006 lines 362-439: the body of a request was read; POST runs up to its
\* response or up to the upstream call it awaits.  At most bound upstream calls
\* are issued in a run and at most conc await their result at one time
PostHandle(r, bound, conc) ==
  LET k == r.key
      c == cache[k]
      look == GetCachedResponse(c, r.inm, now)
      g == GenSync(k)
      calling == r.body = "ok" /\ (~look.found \/ look.isStale)
      issuing == calling /\ g.outcome = "issued"
      \* the text generateText returns without an upstream call, and the entry
      \* cacheResponse then stores
      stored == IF calling /\ g.outcome = "cached" /\ g.text # ""
                THEN CacheResponse(c, g.text, now)
                ELSE IF look.evict THEN NoEntry ELSE c
      resp == IF r.body # "ok" THEN BadBodyResponse(r.body)
              ELSE IF look.found
                   THEN SummaryResponse(c.summary, c.etag,
                                        IF look.isStale THEN "STALE" ELSE "HIT")
              ELSE IF g.outcome = "cached" THEN AfterText(g.text, generateETag(g.text))
              ELSE IF g.outcome = "denied"
                   THEN ErrorResponse("Rate limit exceeded", <<g.retryAfter, 1>>)
              ELSE NoResponse
  IN
  /\ r \in pending
  /\ pending' = pending \ {r}
  /\ issuing => (calls < bound /\ InFlightCount < conc)
  /\ cache' = IF r.body = "ok" THEN [cache EXCEPT ![k] = stored] ELSE cache
  /\ writer' = IF calling /\ g.outcome = "cached" /\ g.text # ""
               THEN [writer EXCEPT ![k] = IF look.found THEN "refresh" ELSE "post"]
               ELSE IF r.body = "ok" /\ look.evict THEN [writer EXCEPT ![k] = "none"]
               ELSE writer
  /\ lapsed' = IF (calling /\ g.outcome = "cached" /\ g.text # "")
                    \/ (r.body = "ok" /\ look.evict)
               THEN [lapsed EXCEPT ![k] = FALSE]
               ELSE IF calling /\ look.found /\ g.outcome = "denied"
                    THEN [lapsed EXCEPT ![k] = TRUE]
               ELSE lapsed
  /\ requests' = IF calling THEN g.requests ELSE requests
  /\ failures' = IF calling THEN g.failures ELSE failures
  /\ isOpen' = IF calling THEN g.isOpen ELSE isOpen
  /\ tripped' = IF calling /\ g.outcome # "cached" /\ now - lastFailureTime > resetTimeout
                THEN FALSE ELSE tripped
  /\ inflight' = IF issuing
                 THEN [inflight EXCEPT
                         ![<<k, IF look.found THEN "refresh" ELSE "post">>] = @ + 1]
                 ELSE inflight
  /\ calls' = IF issuing THEN calls + 1 ELSE calls
  /\ generationConfig' = IF issuing
                         THEN Configure(generationConfig, getModelConfig("brief"))
                         ELSE generationConfig
  /\ ev' = PostEvent(r, g, calling, resp)
  /\ UNCHANGED <<now, lastFailureTime, responseCache, lastRequestTime, currentInterval,
                 issued, streak, ticks, posts, session>>

\* the upstream call of a generateText call resolves: res is "ok" or a failure.
\* origin says who awaits the result: a direct caller, the POST handler
\* (part_006 lines 398-439) or the background refresh (part_006 lines 379-385)
\* part_006 lines 379-386 and 400-428: whether the route passes what
\* generateText returned to cacheResponse; a is the result, origin the caller.
\* StoresAlways is a route that calls cacheResponse with whatever came back
StoresAlways(origin, a) == origin # "direct"
Stores(origin, a) == origin # "direct" /\ a.hasText /\ a.text # ""

Resolve(k, origin, res, txt) ==
  LET a == GenAfter(k, res, txt)
      storing == Stores(origin, a)
      resp == IF origin # "post" THEN NoResponse
              ELSE IF a.hasText THEN AfterText(a.text, generateETag(a.text))
              ELSE ErrorResponse(a.error, a.retryAfter)
  IN
  /\ inflight[<<k, origin>>] > 0
  /\ inflight' = [inflight EXCEPT ![<<k, origin>>] = @ - 1]
  /\ requests' = a.requests
  /\ failures' = a.failures
  /\ isOpen' = a.isOpen
  /\ lastFailureTime' = a.lastFailureTime
  /\ responseCache' = a.responseCache
  /\ cache' = IF storing THEN [cache EXCEPT ![k] = CacheResponse(cache[k], a.text, now)]
              ELSE cache
  /\ writer' = IF storing THEN [writer EXCEPT ![k] = origin] ELSE writer
  /\ lapsed' = IF storing THEN [lapsed EXCEPT ![k] = FALSE]
               ELSE IF origin = "refresh" /\ ~a.hasText THEN [lapsed EXCEPT ![k] = TRUE]
               ELSE lapsed
  /\ ev' = [op |-> "resolve", time |-> now, key |-> k, origin |-> origin, res |-> res,
            ofProbe |-> ev.op = "generate" /\ ev.probe /\ ev.key = k
                          /\ origin = "direct" /\ ev.inflightBefore = 0,
            hasText |-> a.hasText, text |-> a.text, error |-> a.error,
            rejected |-> a.rejected,
            retryAfter |-> a.retryAfter, openBefore |-> isOpen,
            failuresBefore |-> failures, entryBefore |-> cache[k],
            cachedBefore |-> responseCache[k],
            requestsBefore |-> requests, lastFailureBefore |-> lastFailureTime,
            status |-> resp.status, xcache |-> resp.xcache, summary |-> resp.summary,
            etag |-> resp.etag, hasRetryAfter |-> resp.hasRetryAfter,
            retryAfterHeader |-> resp.retryAfterHeader]
  /\ tripped' = IF res \in {"429", "other"} /\ a.isOpen THEN TRUE ELSE tripped
  /\ streak' = IF res = "ok" THEN 0
               ELSE IF res \in {"429", "other"} THEN Min(streak + 1, failureThreshold)
               ELSE streak
  /\ UNCHANGED <<now, issued, calls, ticks, lastRequestTime, currentInterval, pending,
                 posts, generationConfig, session>>

\* time passes
Tick(d, bound) ==
  /\ ticks < bound
  /\ now' = now + d
  /\ ticks' = ticks + 1
  /\ UNCHANGED <<requests, failures, lastFailureTime, isOpen, responseCache, inflight,
                 issued, calls, tripped, streak, generationConfig, session, ev>>
  /\ UNCHANGED routeVars

\* ------------------------------------------- the governor, callers concurrent
GovJumps == {1, resetTimeout}
GovTexts == {"s1"}

GovGenerate == \E k \in Keys : Generate(k, MaxIssued, MaxInFlight, FALSE)
GovSucceed == \E k \in Keys, txt \in GovTexts : Resolve(k, "direct", "ok", txt)
GovFail == \E k \in Keys, res \in Failures : Resolve(k, "direct", res, "")
GovTick == \E d \in GovJumps : Tick(d, MaxTicks)

Next == GovGenerate \/ GovSucceed \/ GovFail \/ GovTick

Spec == Init /\ [][Next]_vars

\* ------------- a burst: many callers at once, all within one millisecond

BurstGenerate == \E k \in Keys : Generate(k, MaxBurst, MaxBurst, TRUE)
BurstSucceed == \E k \in Keys : Resolve(k, "direct", "ok", "s1")
BurstFail == \E k \in Keys : Resolve(k, "direct", "other", "")

BurstNext == BurstGenerate \/ BurstSucceed \/ BurstFail

BurstSpec == Init /\ [][BurstNext]_vars

\* ------ the sequential scenario: each call resolves before the next starts,
\* every upstream call succeeds, every call has a cache key of its own
SeqJumps == {1, windowSize - 1, windowSize}

SeqCall == /\ InFlightCount = 0
           /\ calls < MaxSeqCalls
           /\ Generate(calls + 1, MaxSeqCalls, 1, TRUE)
SeqReturn == \E k \in SeqKeys : Resolve(k, "direct", "ok", "s1")
SeqTick == \E d \in SeqJumps : Tick(d, MaxSeqTicks)

SeqNext == SeqCall \/ SeqReturn \/ SeqTick

SeqSpec == Init /\ [][SeqNext]_vars

\* ------- the response cache: a few callers, time passing by nearly an hour
CacheJumps == {1, CACHE_DURATION - 1}
CacheTexts == {"s1", "s2"}

CacheGenerate == \E k \in Keys : Generate(k, MaxCacheCalls, MaxCacheInFlight, FALSE)
CacheSucceed == \E k \in Keys, txt \in CacheTexts : Resolve(k, "direct", "ok", txt)
CacheFail == \E k \in Keys : Resolve(k, "direct", "other", "")
CacheTick == \E d \in CacheJumps : Tick(d, MaxCacheTicks)

CacheNext == CacheGenerate \/ CacheSucceed \/ CacheFail \/ CacheTick

CacheSpec == Init /\ [][CacheNext]_vars

\* ---------------------------------------------------- the summarize route
SumKeys == {1}
SumValidators == {NoValidator, generateETag("s1")}
SumJumps == {MIN_INTERVAL,
             SUMMARY_CACHE_DURATION * 1000,
             (STALE_WHILE_REVALIDATE - SUMMARY_CACHE_DURATION) * 1000}

SumArrive == \E k \in SumKeys, inm \in SumValidators : PostArrive(k, inm, "ok", MaxPosts)
SumHandle == \E r \in pending : PostHandle(r, MaxSumIssued, MaxInFlight)
SumSucceed == \E k \in SumKeys, o \in {"post", "refresh"}, txt \in Texts :
                Resolve(k, o, "ok", txt)
SumFail == \E k \in SumKeys, o \in {"post", "refresh"}, res \in Failures :
             Resolve(k, o, res, "")
SumTick == \E d \in SumJumps : Tick(d, MaxSumTicks)

SumNext == SumArrive \/ SumHandle \/ SumSucceed \/ SumFail \/ SumTick

SumSpec == Init /\ [][SumNext]_vars

\* ------- the ages of an entry of the summarize route: one key, requests
\* with no validator or with one that matches no entry, an hour, 23 hours and
\* a second passing
AgeValidators == {NoValidator, generateETag("s2")}
AgeJumps == {MIN_INTERVAL,
             SUMMARY_CACHE_DURATION * 1000,
             (STALE_WHILE_REVALIDATE - SUMMARY_CACHE_DURATION) * 1000}

AgeArrive == \E k \in SumKeys, inm \in AgeValidators : PostArrive(k, inm, "ok", MaxAgePosts)
AgeHandle == \E r \in pending : PostHandle(r, MaxAgeIssued, MaxAgeInFlight)
AgeSucceed == \E k \in SumKeys, o \in {"post", "refresh"} : Resolve(k, o, "ok", "s1")
AgeFail == \E k \in SumKeys, o \in {"post", "refresh"} : Resolve(k, o, "other", "")
AgeTick == \E d \in AgeJumps : Tick(d, MaxAgeTicks)

AgeNext == AgeArrive \/ AgeHandle \/ AgeSucceed \/ AgeFail \/ AgeTick

AgeSpec == Init /\ [][AgeNext]_vars

\* ------- the pacing guard: requests for one key that come fast or slowly
PaceJumps == {MIN_INTERVAL, MAX_INTERVAL}

PaceArrive == \E k \in SumKeys, body \in {"ok", "badschema"} :
                PostArrive(k, NoValidator, body, MaxPacePosts)
PaceHandle == \E r \in pending : PostHandle(r, MaxPaceIssued, 1)
PaceSucceed == \E k \in SumKeys : Resolve(k, "post", "ok", "s1")
PaceTick == \E d \in PaceJumps : Tick(d, MaxPaceTicks)

PaceNext == PaceArrive \/ PaceHandle \/ PaceSucceed \/ PaceTick

PaceSpec == Init /\ [][PaceNext]_vars

\* ------- the summarize route while the upstream fails the other callers of
\* generateText, whose prompts are not the route's
OtherKeys == {2}
BusyJumps == {MIN_INTERVAL, SUMMARY_CACHE_DURATION * 1000 + MIN_INTERVAL}

BusyArrive == \E k \in SumKeys, inm \in SumValidators :
                PostArrive(k, inm, "ok", MaxBusyPosts)
BusyHandle == \E r \in pending : PostHandle(r, MaxBusyIssued, MaxBusyInFlight)
BusySucceed == \E k \in SumKeys, o \in {"post", "refresh"}, txt \in Texts :
                 Resolve(k, o, "ok", txt)
BusyFail == \E k \in SumKeys, o \in {"post", "refresh"}, res \in Failures :
              Resolve(k, o, res, "")
BusyGenerate == \E k \in OtherKeys : Generate(k, MaxBusyIssued, MaxBusyInFlight, FALSE)
BusyOtherFail == \E k \in OtherKeys : Resolve(k, "direct", "other", "")
BusyTick == \E d \in BusyJumps : Tick(d, MaxBusyTicks)

BusyNext == \/ BusyArrive \/ BusyHandle \/ BusySucceed \/ BusyFail
            \/ BusyGenerate \/ BusyOtherFail \/ BusyTick

BusySpec == Init /\ [][BusyNext]_vars

\* ------- the summarize route with malformed bodies, while another caller of
\* generateText, one call at a time, opens the breaker
BadBodies == {"badjson", "badschema"}
ErrJumps == {MIN_INTERVAL, resetTimeout}

ErrArrive == \E k \in SumKeys, body \in {"ok"} \cup BadBodies :
               PostArrive(k, NoValidator, body, MaxErrPosts)
ErrHandle == \E r \in pending : PostHandle(r, MaxErrIssued, 1)
ErrSucceed == \E k \in SumKeys : Resolve(k, "post", "ok", "s1")
ErrFail == \E k \in SumKeys, res \in Failures : Resolve(k, "post", res, "")
ErrGenerate == \E k \in OtherKeys : Generate(k, MaxErrIssued, 1, FALSE)
ErrOtherSucceed == \E k \in OtherKeys : Resolve(k, "direct", "ok", "s1")
ErrOtherFail == \E k \in OtherKeys : Resolve(k, "direct", "other", "")
ErrTick == \E d \in ErrJumps : Tick(d, MaxErrTicks)

ErrNext == \/ ErrArrive \/ ErrHandle \/ ErrSucceed \/ ErrFail
           \/ ErrGenerate \/ ErrOtherSucceed \/ ErrOtherFail \/ ErrTick

ErrSpec == Init /\ [][ErrNext]_vars

\* ------- the summarize route while other callers of generateText, one at a
\* time and each with a prompt of its own, fill the rate window; every upstream
\* call succeeds
WinKeys == AllKeys \ SumKeys
WinJumps == {MIN_INTERVAL, windowSize - MIN_INTERVAL}

WinArrive == \E k \in SumKeys : PostArrive(k, NoValidator, "ok", MaxWinPosts)
WinHandle == \E r \in pending : PostHandle(r, MaxWinIssued, 1)
WinSucceed == \E k \in SumKeys : Resolve(k, "post", "ok", "s1")
WinCall == /\ InFlightCount = 0
           /\ calls < MaxWinIssued
           /\ Generate(calls + 2, MaxWinIssued, 1, FALSE)
WinReturn == \E k \in WinKeys : Resolve(k, "direct", "ok", "s1")
WinTick == \E d \in WinJumps : Tick(d, MaxWinTicks)

WinNext == WinArrive \/ WinHandle \/ WinSucceed \/ WinCall \/ WinReturn \/ WinTick

WinSpec == Init /\ [][WinNext]_vars

\* ------- the failure scenario: a few callers, upstream calls that fail in
\* each of the ways the catch block tells apart
FailJumps == {1, resetTimeout}

FailGenerate == \E k \in Keys : Generate(k, MaxFailIssued, MaxFailInFlight, FALSE)
FailSucceed == \E k \in Keys : Resolve(k, "direct", "ok", "s1")
FailFail == \E k \in Keys, res \in Failures : Resolve(k, "direct", res, "")
FailTick == \E d \in FailJumps : Tick(d, MaxFailTicks)

FailNext == FailGenerate \/ FailSucceed \/ FailFail \/ FailTick

FailSpec == Init /\ [][FailNext]_vars

\* ------- cache hits under a tripped breaker: a few callers, upstream calls
\* that succeed or fail
HitJumps == {1, resetTimeout}

HitGenerate == \E k \in Keys : Generate(k, MaxHitIssued, MaxHitInFlight, FALSE)
HitSucceed == \E k \in Keys : Resolve(k, "direct", "ok", "s1")
HitFail == \E k \in Keys : Resolve(k, "direct", "other", "")
HitTick == \E d \in HitJumps : Tick(d, MaxHitTicks)

HitNext == HitGenerate \/ HitSucceed \/ HitFail \/ HitTick

HitSpec == Init /\ [][HitNext]_vars

\* ------- the breaker under concurrent failures: callers with one prompt,
\* several upstream calls awaiting their result together
TripKeys == {1}
TripJumps == {1, resetTimeout}

TripGenerate == \E k \in TripKeys : Generate(k, MaxTripIssued, MaxTripInFlight, FALSE)
TripSucceed == \E k \in TripKeys : Resolve(k, "direct", "ok", "s1")
TripFail == \E k \in TripKeys : Resolve(k, "direct", "other", "")
TripTick == \E d \in TripJumps : Tick(d, MaxTripTicks)

TripNext == TripGenerate \/ TripSucceed \/ TripFail \/ TripTick

TripSpec == Init /\ [][TripNext]_vars

\* ------- denials: calls one after the other, each with a prompt of its
\* own, that succeed or fail, enough of them to fill the window, and the
\* cooldown of the breaker passing
DenyJumps == {resetTimeout + 1}

DenyCall == /\ InFlightCount = 0
            /\ calls < MaxDenyCalls
            /\ Generate(calls + 1, MaxDenyCalls, 1, FALSE)
DenySucceed == \E k \in SeqKeys : Resolve(k, "direct", "ok", "s1")
DenyFail == \E k \in SeqKeys : Resolve(k, "direct", "other", "")
DenyTick == \E d \in DenyJumps : Tick(d, MaxDenyTicks)

DenyNext == DenyCall \/ DenySucceed \/ DenyFail \/ DenyTick

DenySpec == Init /\ [][DenyNext]_vars

\* ------- what the two caches store: one prompt, asked for by the summarize
\* route and by a direct caller, upstream calls that succeed, with or without
\* text, or fail, an hour and a second passing
StoreJumps == {SUMMARY_CACHE_DURATION * 1000 + MIN_INTERVAL}
StoreTexts == {"", "s1"}

StoreArrive == \E k \in SumKeys : PostArrive(k, NoValidator, "ok", MaxStorePosts)
StoreHandle == \E r \in pending : PostHandle(r, MaxStoreIssued, 1)
StoreGenerate == \E k \in SumKeys : Generate(k, MaxStoreIssued, 1, FALSE)
StoreSucceed == \E k \in SumKeys, o \in Origins, txt \in StoreTexts :
                  Resolve(k, o, "ok", txt)
StoreFail == \E k \in SumKeys, o \in Origins, res \in Failures : Resolve(k, o, res, "")
StoreTick == \E d \in StoreJumps : Tick(d, MaxStoreTicks)

StoreNext == \/ StoreArrive \/ StoreHandle \/ StoreGenerate
             \/ StoreSucceed \/ StoreFail \/ StoreTick

StoreSpec == Init /\ [][StoreNext]_vars

\* ------------------------------------------------------- the chat route
\* src/app/api/ai/chat/route.ts.  A message of the user is the words of its
\* text up to the first brace, and the object between its first brace pair:
\* "none" when the text holds no braces, "broken" when JSON.parse rejects what
\* is between them, otherwise the value of the action field of the object
NoMessage == [present |-> FALSE, words |-> <<>>, json |-> "none"]
UserWords == {<<>>, <<"SEND", "it">>, <<"sending">>}
UserJson == {"none", "broken", "send"}
LastUserMessages ==
  {NoMessage} \cup {[present |-> TRUE, words |-> w, json |-> j] :
                      w \in UserWords, j \in UserJson}

\* toLowerCase on the words of the messages
Lower(w) == IF w = "SEND" THEN "send" ELSE w

\* lines 41-60: the action the last message of the user asks for.  An absent
\* or empty message asks for none; a message that is the word send, or starts
\* with it and a space, asks to send; otherwise the object in the message
\* decides
detectUserAction(message) ==
  IF ~message.present \/ (message.words = <<>> /\ message.json = "none") THEN "null"
  ELSE IF message.words # <<>> /\ Lower(Head(message.words)) = "send" THEN "send"
  ELSE IF message.json = "send" THEN "send"
  ELSE "null"

\* what the model answers: the text is a JSON object ("raw"), a JSON object in
\* a code fence ("fenced"), a fence around what is no JSON ("brokenfence"),
\* prose, or the call throws
Emails ==
  {[to |-> <<"a@example.com">>, subject |-> "Hello", content |-> "Hi"],
   [to |-> <<>>, subject |-> "Hello", content |-> "Hi"],
   [to |-> <<"a@example.com">>, subject |-> "", content |-> "Hi"],
   [to |-> <<"a@example.com">>, subject |-> "Hello", content |-> ""]}
ModelResponses ==
  {[form |-> f, type |-> ty, action |-> ac, email |-> e, summary |-> FALSE] :
     f \in {"raw", "fenced"}, ty \in {"compose", "query"},
     ac \in {"send", "confirm", "none"}, e \in Emails}
  \cup {[form |-> f, type |-> "query", action |-> "none",
         email |-> [to |-> <<>>, subject |-> "", content |-> ""], summary |-> m] :
          f \in {"prose", "brokenfence", "throw"}, m \in BOOLEAN}

\* lines 62-76: JSON.parse of the text, or of what a code fence holds
extractJsonFromResponse(response) == response.form \in {"raw", "fenced"}

\* lines 78-84
validateEmailData(email) ==
  Len(email.to) # 0 /\ email.subject # "" /\ email.content # ""

\* lines 278-318: the action taken on a compose answer with valid email data
finalAction(userAction, response) ==
  IF userAction # "null" THEN userAction ELSE response.action

\* lines 148-393: the response of POST and whether it posted the email to
\* /api/gmail/send; sendOk is whether that request succeeded
ChatResponse(authenticated, message, response, sendOk) ==
  LET userAction == detectUserAction(message)
      none == [status |-> 200, calledModel |-> TRUE, posted |-> FALSE,
               type |-> "query", action |-> "none"]
  IN
  IF ~authenticated
  THEN [none EXCEPT !.status = 401, !.calledModel = FALSE, !.type = "none"]
  ELSE IF response.form = "throw"
  THEN [none EXCEPT !.status = 500, !.type = "none"]
  ELSE IF extractJsonFromResponse(response)
  THEN IF response.type # "compose" THEN none
       ELSE IF ~validateEmailData(response.email) THEN [none EXCEPT !.type = "error"]
       ELSE IF finalAction(userAction, response) = "send"
            THEN [none EXCEPT !.posted = TRUE,
                              !.type = IF sendOk THEN "compose" ELSE "error",
                              !.action = IF sendOk THEN "sent" ELSE "error"]
            ELSE [none EXCEPT !.type = "compose", !.action = "confirm"]
  ELSE IF response.summary THEN [none EXCEPT !.type = "summary"]
  ELSE IF userAction = "send" THEN [none EXCEPT !.type = "error"]
  ELSE none

\* a chat request is handled.  The handler awaits the session, the body, the
\* model and the send request, and reads and writes no state of the server in
\* between
ChatPost(message, response, sendOk) ==
  LET resp == ChatResponse(session, message, response, sendOk) IN
  /\ ev' = [op |-> "chat", time |-> now, authenticated |-> session,
            message |-> message, userAction |-> detectUserAction(message),
            response |-> response, status |-> resp.status,
            calledModel |-> resp.calledModel, calledMailbox |-> FALSE,
            posted |-> resp.posted,
            type |-> resp.type, action |-> resp.action]
  /\ UNCHANGED <<now, requests, failures, lastFailureTime, isOpen, responseCache, inflight,
                 issued, calls, tripped, streak, ticks, generationConfig, session>>
  /\ UNCHANGED routeVars

\* the client signs in or out (next-auth)
SignIn ==
  /\ ~session
  /\ session' = TRUE
  /\ ev' = [op |-> "signin", time |-> now]
  /\ UNCHANGED <<now, requests, failures, lastFailureTime, isOpen, responseCache, inflight,
                 issued, calls, tripped, streak, ticks, generationConfig>>
  /\ UNCHANGED routeVars

SignOut ==
  /\ session
  /\ session' = FALSE
  /\ ev' = [op |-> "signout", time |-> now]
  /\ UNCHANGED <<now, requests, failures, lastFailureTime, isOpen, responseCache, inflight,
                 issued, calls, tripped, streak, ticks, generationConfig>>
  /\ UNCHANGED routeVars

ChatRequest ==
  \E m \in LastUserMessages, a \in ModelResponses, ok \in BOOLEAN : ChatPost(m, a, ok)
ChatNext == ChatRequest \/ SignIn \/ SignOut
ChatSpec == Init /\ [][ChatNext]_vars

\* ------------------------ the cache key of generateText, as a function of
\* the request
KeyPrompts == {"p", "q"}
KeyTemperatures == {Undefined, 0, 3, 5}
KeyMaxTokens == {Undefined, 0, 1024}
KeyRequests ==
  {[prompt |-> p, temperature |-> t, maxTokens |-> m] :
     p \in KeyPrompts, t \in KeyTemperatures, m \in KeyMaxTokens}

\* the keys of two requests are derived
DeriveKeys(a, b) ==
  /\ ev' = [op |-> "keys", time |-> now, a |-> a, b |-> b,
            keyA |-> cacheKey(a.prompt, a.temperature, a.maxTokens),
            keyB |-> cacheKey(b.prompt, b.temperature, b.maxTokens)]
  /\ UNCHANGED <<now, requests, failures, lastFailureTime, isOpen, responseCache, inflight,
                 issued, calls, tripped, streak, ticks, generationConfig, session>>
  /\ UNCHANGED routeVars

KeyNext == \E a \in KeyRequests, b \in KeyRequests : DeriveKeys(a, b)
KeySpec == Init /\ [][KeyNext]_vars

\* ---------------------------------- the categorize and the send route
\* src/app/api/ai/categorize/route.ts lines 40-90: POST reads the body, wants
\* an email address in it, calls the model and answers with the first JSON
\* object of its text.  The handler never asks for the session
CategorizeAnswers == {"json", "nojson", "badjson", "throw"}
CategorizeResponse(hasEmail, answer) ==
  IF ~hasEmail THEN [status |-> 400, calledModel |-> FALSE]
  ELSE [status |-> IF answer = "json" THEN 200 ELSE 500, calledModel |-> TRUE]

CategorizePost(hasEmail, answer) ==
  LET resp == CategorizeResponse(hasEmail, answer) IN
  /\ ev' = [op |-> "categorize", time |-> now, authenticated |-> session,
            hasEmail |-> hasEmail, answer |-> answer, status |-> resp.status,
            calledModel |-> resp.calledModel, calledMailbox |-> FALSE]
  /\ UNCHANGED <<now, requests, failures, lastFailureTime, isOpen, responseCache, inflight,
                 issued, calls, tripped, streak, ticks, generationConfig, session>>
  /\ UNCHANGED routeVars

\* src/unnamed/part_007 lines 15-73: the send route asks for the session first,
\* then wants to, subject and content, then has the mailbox send the message;
\* sendOk is whether the mailbox accepted it
SendResponse(authenticated, complete, sendOk) ==
  IF ~authenticated THEN [status |-> 401, calledMailbox |-> FALSE]
  ELSE IF ~complete THEN [status |-> 400, calledMailbox |-> FALSE]
  ELSE [status |-> IF sendOk THEN 200 ELSE 500, calledMailbox |-> TRUE]

SendPost(complete, sendOk) ==
  LET resp == SendResponse(session, complete, sendOk) IN
  /\ ev' = [op |-> "send", time |-> now, authenticated |-> session,
            complete |-> complete, status |-> resp.status,
            calledModel |-> FALSE, calledMailbox |-> resp.calledMailbox]
  /\ UNCHANGED <<now, requests, failures, lastFailureTime, isOpen, responseCache, inflight,
                 issued, calls, tripped, streak, ticks, generationConfig, session>>
  /\ UNCHANGED routeVars

\* ------- the four routes, called by a client that signs in and out between
\* its requests
AuthMessages == {NoMessage, [present |-> TRUE, words |-> <<"SEND", "it">>, json |-> "none"]}
AuthAnswers ==
  {a \in ModelResponses :
     /\ a.form \in {"raw", "throw"} /\ ~a.summary /\ a.action # "none"
     /\ a.type = "compose" => validateEmailData(a.email)
     /\ a.type = "query" => a.action = "confirm" /\ a.email.to = <<>>}
AuthJumps == {MIN_INTERVAL}

AuthSignIn == pending = {} /\ InFlightCount = 0 /\ SignIn
AuthSignOut == pending = {} /\ InFlightCount = 0 /\ SignOut
AuthChat == \E m \in AuthMessages, a \in AuthAnswers, ok \in BOOLEAN : ChatPost(m, a, ok)
AuthCategorize == \E e \in BOOLEAN, a \in CategorizeAnswers : CategorizePost(e, a)
AuthSend == \E c \in BOOLEAN, ok \in BOOLEAN : SendPost(c, ok)
AuthArrive == \E k \in SumKeys, body \in {"ok", "badschema"} :
                PostArrive(k, NoValidator, body, MaxAuthPosts)
AuthHandle == \E r \in pending : PostHandle(r, MaxAuthIssued, 1)
AuthSucceed == \E k \in SumKeys, txt \in {"s1"} : Resolve(k, "post", "ok", txt)
AuthFail == \E k \in SumKeys : Resolve(k, "post", "other", "")
AuthTick == \E d \in AuthJumps : Tick(d, MaxAuthTicks)

AuthNext ==
  \/ AuthSignIn \/ AuthSignOut \/ AuthChat \/ AuthCategorize \/ AuthSend
  \/ AuthArrive \/ AuthHandle \/ AuthSucceed \/ AuthFail \/ AuthTick

AuthSpec == Init /\ [][AuthNext]_vars

\* ------- the generation parameters: callers of generateText that pass
\* options or leave them out, one prompt
ConfigRequests ==
  {[prompt |-> "p", temperature |-> t, maxTokens |-> m] :
     t \in {Undefined, 0, 3}, m \in {Undefined, 1024}}
\* the cache keys of these requests, numbered: key i of the model is
\* ConfigKeyTable[i]
ConfigCacheKeys == {cacheKey(r.prompt, r.temperature, r.maxTokens) : r \in ConfigRequests}
ConfigKeyTable ==
  CHOOSE f \in [1..Cardinality(ConfigCacheKeys) -> ConfigCacheKeys] :
    \A i, j \in 1..Cardinality(ConfigCacheKeys) : f[i] = f[j] => i = j
ConfigKey(r) ==
  CHOOSE i \in 1..Cardinality(ConfigCacheKeys) :
    ConfigKeyTable[i] = cacheKey(r.prompt, r.temperature, r.maxTokens)

ConfigGenerate ==
  \E r \in ConfigRequests :
    GenerateText(ConfigKey(r), [temperature |-> r.temperature, maxTokens |-> r.maxTokens],
                 MaxConfigIssued, MaxConfigInFlight, FALSE)
ConfigSucceed == \E k \in 1..Cardinality(ConfigCacheKeys) : Resolve(k, "direct", "ok", "s1")
ConfigFail == \E k \in 1..Cardinality(ConfigCacheKeys) : Resolve(k, "direct", "other", "")
ConfigTick == Tick(1, MaxConfigTicks)

ConfigNext == ConfigGenerate \/ ConfigSucceed \/ ConfigFail \/ ConfigTick
ConfigSpec == Init /\ [][ConfigNext]_vars

\* ================================================================ claims

\* a generateText call that reached the admission check (it missed the cache)
Checked == ev.op = "generate" /\ ~ev.freshBefore

\* C1: in every interleaving of concurrent generateText calls, the number of
\* upstream calls issued within any rolling window of windowSize ms never
\* exceeds maxRequests.  Calls are issued in time order, so it is enough to
\* count, for every call, the calls issued in the window that ends with it.
C1_WindowBoundsUpstreamCalls ==
  \A i \in 1..Len(issued) :
    Cardinality({j \in 1..Len(issued) :
                   issued[j] > issued[i] - windowSize /\ issued[j] <= issued[i]})
      <= maxRequests

\* C2: once the breaker has opened, every admission check is denied until
\* resetTimeout ms have elapsed since the last recorded failure, also when
\* calls admitted before it opened succeed while it is open.
C2_OpenBreakerDeniesUntilCooldown ==
  (Checked /\ ev.trippedBefore /\ ev.sinceFailure < resetTimeout)
    => ev.outcome = "denied"

\* C3: sequential calls, all successful, all with distinct keys: once
\* maxRequests calls were admitted inside the window that ends now, the next
\* call is denied with retryAfter > 0 and issues no upstream call; and the
\* call made windowSize ms after a denial (no call in between) is admitted.
C3_WindowDeniesThenAdmits ==
  /\ (ev.op = "generate" /\ ev.issuedInWindow >= maxRequests)
       => /\ ev.outcome = "denied"
          /\ ev.retryAfter > 0
          /\ calls = ev.callsBefore
          /\ InFlightCount = 0
  /\ (ev.op = "generate" /\ ev.afterDenial /\ ev.time = ev.denialAt + windowSize)
       => ev.outcome = "issued"

\* C3 witness: maxRequests calls were admitted, one more was denied, and the
\* call made windowSize ms after the denial was admitted
C3_Witness ==
  /\ ev.op = "generate"
  /\ ev.afterDenial
  /\ ev.time = ev.denialAt + windowSize
  /\ ev.callsBefore >= maxRequests
  /\ ev.outcome = "issued"

\* C4: after 3 failures were recorded with no success recorded between them,
\* every admission check made within resetTimeout ms of the last failure is
\* denied with retryAfter = resetTimeout - (now - lastFailureTime) >= 0,
\* whatever the rate window holds.
C4_ThreeFailuresDeny ==
  (Checked /\ ev.streakBefore >= 3 /\ ev.sinceFailure <= resetTimeout)
    => /\ ev.outcome = "denied"
       /\ ev.retryAfter = resetTimeout - ev.sinceFailure
       /\ ev.retryAfter >= 0

\* C5: when the breaker is open and at least resetTimeout ms have elapsed
\* since the last recorded failure, the next admission check is allowed,
\* provided the window holds fewer than maxRequests in-window timestamps.
C5_CooldownElapsedAdmits ==
  (Checked /\ ev.openBefore /\ ev.sinceFailure >= resetTimeout
     /\ ev.inWindowBefore < maxRequests)
    => ev.outcome = "issued"

\* a summarize request with a usable body that reached the lookup of the cache
Handled == ev.op = "post" /\ ev.stage = "handle" /\ ev.body = "ok"

\* C6: a summarize request whose If-None-Match equals the etag stored for its
\* key is answered not-modified (304) and does not call generateText.
C6_MatchingValidatorNotModified ==
  (Handled /\ ev.inmMatch) => (ev.status = 304 /\ ~ev.calledGenerate)

\* what the route does instead with a matching validator: it never answers
\* 304 and always calls generateText, as for a key with no entry
MatchingValidatorRegenerates ==
  (Handled /\ ev.inmMatch) => (ev.status # 304 /\ ev.calledGenerate)

MatchingValidatorSeen == Handled /\ ev.inmMatch /\ ev.age = "fresh"

\* C7: a generateText call that starts after a call with the same key has
\* succeeded, less than CACHE_DURATION ms after its text was cached, issues no
\* upstream call and returns the text the first call stored; the first call
\* stored the text it returned, with the time of its success.
C7_SecondCallServedFromCache ==
  /\ (ev.op = "resolve" /\ ev.res = "ok")
       => responseCache[ev.key] = [present |-> TRUE, text |-> ev.text, timestamp |-> ev.time]
  /\ (ev.op = "generate" /\ ev.cachedBefore.present
        /\ ev.time - ev.cachedBefore.timestamp < CACHE_DURATION)
       => /\ ev.outcome = "cached"
          /\ ev.text = ev.cachedBefore.text
          /\ calls = ev.callsBefore
          /\ InFlightCount = ev.inflightBefore

\* C7 witness: one upstream call was made, and a second call with the same key,
\* one millisecond before the cached text is an hour old, is served from the cache
C7_Witness ==
  /\ ev.op = "generate"
  /\ ev.outcome = "cached"
  /\ ev.time - ev.cachedBefore.timestamp = CACHE_DURATION - 1
  /\ ev.text = "s2"
  /\ calls = 1

\* C8: a summarize request whose entry is stale is answered at once (the
\* handler does not wait for the upstream call) with the stored summary and
\* X-Cache: STALE, whatever generateText does for the refresh.
C8_StaleServedAtOnce ==
  (Handled /\ ev.age = "stale")
    => /\ ev.responded
       /\ ev.status = 200
       /\ ev.summary = ev.entryBefore.summary
       /\ ev.etag = ev.entryBefore.etag
       /\ ev.xcache = "STALE"

\* the same for the requests whose If-None-Match is not the stored etag
StaleServedUnlessValidatorMatches ==
  (Handled /\ ev.age = "stale" /\ ~ev.inmMatch)
    => /\ ev.responded
       /\ ev.status = 200
       /\ ev.summary = ev.entryBefore.summary
       /\ ev.etag = ev.entryBefore.etag
       /\ ev.xcache = "STALE"
       /\ ev.calledGenerate

StaleServedRefreshDenied ==
  Handled /\ ev.age = "stale" /\ ev.xcache = "STALE" /\ ev.gen = "denied"
StaleServedRefreshIssued ==
  Handled /\ ev.age = "stale" /\ ev.xcache = "STALE" /\ ev.gen = "issued"

\* C9: when the background refresh of a stale entry succeeds with a text, the
\* entry becomes that text with the time of the success and the etag of the
\* text; and a request that finds an entry a refresh stored, within the fresh
\* window of the entry, gets the entry's text with X-Cache: HIT.
C9_RefreshedEntryServedAsHit ==
  /\ (ev.op = "resolve" /\ ev.origin = "refresh" /\ ev.res = "ok" /\ ev.text # "")
       => cache[ev.key] = [present |-> TRUE, summary |-> ev.text, timestamp |-> ev.time,
                           etag |-> generateETag(ev.text)]
  /\ (Handled /\ ev.writerBefore = "refresh" /\ ev.age = "fresh")
       => /\ ev.status = 200
          /\ ev.summary = ev.entryBefore.summary
          /\ ev.xcache = "HIT"

\* the same for the requests whose If-None-Match is not the stored etag
RefreshedEntryServedUnlessValidatorMatches ==
  /\ (ev.op = "resolve" /\ ev.origin = "refresh" /\ ev.res = "ok" /\ ev.text # "")
       => cache[ev.key] = [present |-> TRUE, summary |-> ev.text, timestamp |-> ev.time,
                           etag |-> generateETag(ev.text)]
  /\ (Handled /\ ev.writerBefore = "refresh" /\ ev.age = "fresh" /\ ~ev.inmMatch)
       => /\ ev.status = 200
          /\ ev.summary = ev.entryBefore.summary
          /\ ev.xcache = "HIT"
          /\ ~ev.calledGenerate

RefreshedEntryServed ==
  Handled /\ ev.writerBefore = "refresh" /\ ev.age = "fresh" /\ ev.xcache = "HIT"

\* a refresh that succeeds with the empty text stores nothing
EmptyRefreshStoresNothing ==
  (ev.op = "resolve" /\ ev.origin = "refresh" /\ ev.res = "ok" /\ ev.text = "")
    => cache[ev.key] = ev.entryBefore

\* C10: when the background refresh of a stale entry fails or is denied
\* admission, the entry is unchanged; and the requests that find the entry
\* afterwards, until it is older than the stale limit, get its summary.
C10_FailedRefreshKeepsServing ==
  /\ (ev.op = "resolve" /\ ev.origin = "refresh" /\ ev.res # "ok")
       => cache[ev.key] = ev.entryBefore
  /\ (Handled /\ ev.xcache = "STALE" /\ ev.gen = "denied")
       => cache[ev.key] = ev.entryBefore
  /\ (Handled /\ ev.lapsedBefore /\ ev.age \in {"fresh", "stale"})
       => /\ ev.status = 200
          /\ ev.summary = ev.entryBefore.summary

\* the same for the requests whose If-None-Match is not the stored etag
FailedRefreshKeepsServingUnlessValidatorMatches ==
  /\ (ev.op = "resolve" /\ ev.origin = "refresh" /\ ev.res # "ok")
       => cache[ev.key] = ev.entryBefore
  /\ (Handled /\ ev.xcache = "STALE" /\ ev.gen = "denied")
       => cache[ev.key] = ev.entryBefore
  /\ (Handled /\ ev.lapsedBefore /\ ev.age \in {"fresh", "stale"} /\ ~ev.inmMatch)
       => /\ ev.status = 200
          /\ ev.summary = ev.entryBefore.summary

LapsedEntryServed ==
  Handled /\ ev.lapsedBefore /\ ev.age = "stale" /\ ev.status = 200 /\ ~ev.inmMatch

\* an upstream call resolved and generateText ran to its return
Resolved == ev.op = "resolve"

\* what addRequest(success) at the time of the event makes of the state the
\* resolving call found
RecordedAs(success) ==
  /\ requests = Append(ev.requestsBefore, ev.time)
  /\ IF success
     THEN /\ failures = Max(0, ev.failuresBefore - 1)
          /\ lastFailureTime = ev.lastFailureBefore
     ELSE /\ failures = ev.failuresBefore + 1
          /\ lastFailureTime = ev.time

\* C11: every upstream call that resolves is recorded once through
\* addRequest: a success as addRequest(true), every failure of whatever kind
\* as addRequest(false): one more timestamp in the window, and for a failure
\* one more on the failure counter.
C11_EveryOutcomeRecorded ==
  Resolved => RecordedAs(ev.res = "ok")

\* the same for the outcomes other than the failure whose message names the
\* API key
EveryOutcomeRecordedUnlessApiKey ==
  (Resolved /\ ev.res # "apikey") => RecordedAs(ev.res = "ok")

\* the failure whose message names the API key leaves the window and the
\* breaker as they were
ApiKeyFailureNotRecorded ==
  (Resolved /\ ev.res = "apikey")
    => /\ requests = ev.requestsBefore
       /\ failures = ev.failuresBefore
       /\ lastFailureTime = ev.lastFailureBefore
       /\ isOpen = ev.openBefore

\* the pacing guard rejected a summarize request
Paced == ev.op = "post" /\ ev.stage = "guard" /\ ~ev.passed

\* a summarize request the lookup found no usable entry for was denied
\* admission by generateText, and POST answered with the denial
DeniedInForeground ==
  Handled /\ ev.gen = "denied" /\ (ev.age \in {"none", "expired"} \/ ev.inmMatch)

\* C12: every summarize response caused by an admission denial of
\* generateText (breaker open or window full) or by the pacing guard has
\* status 429 and carries a Retry-After header.
C12_DenialsCarryRetryAfter ==
  (Paced \/ DeniedInForeground) => (ev.status = 429 /\ ev.hasRetryAfter)

\* every such response has status 429, and carries the header with the
\* seconds to wait, rounded up, unless the denial's retryAfter is 0
DenialsCarryRetryAfterUnlessZero ==
  /\ Paced => (ev.status = 429 /\ ev.hasRetryAfter /\ ev.retryAfterHeader >= 1)
  /\ DeniedInForeground
       => /\ ev.status = 429
          /\ ev.hasRetryAfter = (ev.genRetryAfter > 0)
          /\ ev.genRetryAfter > 0
               => ev.retryAfterHeader = (ev.genRetryAfter + 999) \div 1000
  /\ (DeniedInForeground /\ ev.cause = "window") => ev.genRetryAfter > 0

DeniedByFullWindow == DeniedInForeground /\ ev.cause = "window" /\ ev.hasRetryAfter
DeniedByOpenBreaker == DeniedInForeground /\ ev.cause = "breaker" /\ ev.hasRetryAfter
DeniedWithoutRetryAfter == DeniedInForeground /\ ev.cause = "breaker" /\ ~ev.hasRetryAfter

C14_SendOnlyOnUserCommand ==
  (ev.op = "chat" /\ ev.posted) => ev.userAction = "send"

\* what the route does hold to: an email is posted only for a compose answer
\* with valid email data, on a send command of the user or a send action of
\* the model
SendOnlyOnSendAction ==
  (ev.op = "chat" /\ ev.posted) =>
    /\ ev.authenticated
    /\ ev.response.type = "compose"
    /\ validateEmailData(ev.response.email)
    /\ (ev.userAction = "send" \/ ev.response.action = "send")

\* the answer of the model got an email sent that the user did not ask for
ModelSendsUnasked ==
  ev.op = "chat" /\ ev.posted /\ ev.userAction = "null" /\ ev.response.action = "send"


\* C15: the cache key of generateText is a function of the prompt, the
\* temperature and the token limit, and an injective one: two requests have
\* the same key exactly when they agree on all three, an option left out and
\* an option of 0 counting as different values
C15_KeyDistinguishesRequests ==
  ev.op = "keys" => ((ev.keyA = ev.keyB) <=> (ev.a = ev.b))

\* what the key does distinguish: the prompts, and the options up to their
\* truth value (an option left out and an option of 0 both give "default")
KeyDistinguishesUpToFalsy ==
  ev.op = "keys" =>
    ((ev.keyA = ev.keyB) <=>
       /\ ev.a.prompt = ev.b.prompt
       /\ \/ ev.a.temperature = ev.b.temperature
          \/ (~Truthy(ev.a.temperature) /\ ~Truthy(ev.b.temperature))
       /\ \/ ev.a.maxTokens = ev.b.maxTokens
          \/ (~Truthy(ev.a.maxTokens) /\ ~Truthy(ev.b.maxTokens)))

\* a request with temperature 0 and a request with none share a key
ZeroSharesKeyWithUnspecified ==
  /\ ev.op = "keys"
  /\ ev.a.temperature = 0 /\ ev.b.temperature = Undefined
  /\ ev.a.prompt = ev.b.prompt /\ ev.a.maxTokens = ev.b.maxTokens
  /\ ev.keyA = ev.keyB


\* a summarize request with a malformed body was handled
MalformedHandled == ev.op = "post" /\ ev.stage = "handle" /\ ev.body \in BadBodies

\* C16: every summarize request with a malformed body (no JSON, or JSON that
\* the input schema rejects) that passed the pacing guard is answered with
\* status 400
C16_MalformedBodyGets400 == MalformedHandled => ev.status = 400

\* what the route does: a body the schema rejects gets 400, a body that is no
\* JSON gets 500; neither reaches generateText or the cache
MalformedBodyRejected ==
  MalformedHandled =>
    /\ ev.status = IF ev.body = "badschema" THEN 400 ELSE 500
    /\ ~ev.calledGenerate
    /\ cache[ev.key] = ev.entryBefore
    /\ calls = ev.callsBefore

SchemaFailureGets400 == MalformedHandled /\ ev.body = "badschema" /\ ev.status = 400
NoJsonGets500 == MalformedHandled /\ ev.body = "badjson" /\ ev.status = 500


\* a route answered, or called a service, for a client that holds no session
Unauthenticated == ~session /\ ev.op \in {"chat", "categorize", "send", "post"}

\* C17: every route (chat, summarize, categorize, send) answers a request
\* without a session with 401, and calls neither the text-generation service
\* nor the mailbox for it
C17_UnauthenticatedGets401 ==
  Unauthenticated =>
    IF ev.op = "post"
    THEN /\ ev.status # 0 => ev.status = 401
         /\ ev.stage = "handle" => ~ev.calledGenerate
    ELSE ev.status = 401 /\ ~ev.calledModel /\ ~ev.calledMailbox

\* the chat and the send route do so
ChatAndSendWant401 ==
  (Unauthenticated /\ ev.op \in {"chat", "send"}) =>
    (ev.status = 401 /\ ~ev.calledModel /\ ~ev.calledMailbox)

\* the summarize and the categorize route answer a client without a session
\* as they answer any other
SummarizeUnauthenticated ==
  Unauthenticated /\ ev.op = "post" /\ ev.stage = "handle" /\ ev.gen = "issued"
CategorizeUnauthenticated ==
  Unauthenticated /\ ev.op = "categorize" /\ ev.calledModel /\ ev.status = 200
ChatUnauthenticated == Unauthenticated /\ ev.op = "chat" /\ ev.status = 401


\* C18: after the cooldown the breaker admits a single probe: while the
\* upstream call of the probe awaits its result every further admission check
\* is denied, and when the probe fails the breaker is open again
C18_SingleProbeAfterCooldown ==
  /\ (Checked /\ ev.afterProbe) => ev.outcome = "denied"
  /\ (Resolved /\ ev.ofProbe /\ ev.res \in {"429", "other"}) => isOpen

\* what the breaker does when a check finds the cooldown over: it closes and
\* forgets its failures, so that the checks that follow are admitted as long
\* as the window has room, and a failure of the first call counts as the first
\* of three
CooldownOverCloses ==
  /\ (Checked /\ ev.probe) => (~isOpen /\ failures = 0)
  /\ (Checked /\ ev.afterProbe) =>
       (ev.outcome = "issued" <=> ev.inWindowBefore < maxRequests)
  /\ (Resolved /\ ev.ofProbe /\ ev.res \in {"429", "other"}) =>
       (~isOpen /\ failures = 1)

SecondProbeAdmitted == Checked /\ ev.afterProbe /\ ev.outcome = "issued"
FailedProbeLeavesClosed == Resolved /\ ev.ofProbe /\ ev.res = "other" /\ ~isOpen


\* the recording of an outcome opened the breaker
Opened == Resolved /\ ~ev.openBefore /\ isOpen

\* C19: the breaker opens only when 3 failures were recorded in a row, with
\* no success recorded between the first and the third
C19_OpensOnConsecutiveFailures == Opened => streak >= failureThreshold

\* what opens the breaker: a recorded failure that brings the counter to 3,
\* where every recorded success has taken 1 off the counter
OpensOnNetFailures ==
  Opened => (ev.res \in {"429", "other"} /\ failures >= failureThreshold
               /\ ev.failuresBefore = failures - 1)

\* the breaker opened on the second failure after a success
OpenedAfterSuccess == Opened /\ streak = 2
OpenedAfterStreak == Opened /\ streak = failureThreshold


\* a generateText call issued its upstream call
Issued == ev.op = "generate" /\ ev.outcome = "issued"
\* the generation parameters a request asks for: its options, and the
\* defaults proModel was built with for the options it leaves out
Requested(options) ==
  [temperature |-> IF options.temperature = Undefined
                   THEN DefaultTemperature ELSE options.temperature,
   maxOutputTokens |-> IF options.maxTokens = Undefined
                       THEN DefaultMaxOutputTokens ELSE options.maxTokens]

\* C20: every upstream call is issued with the temperature and the
\* maxOutputTokens of its request, and with the defaults (0.5 and 2048) for
\* what the request leaves out, whatever calls were made before
C20_IssuedWithRequestParameters == Issued => generationConfig = Requested(ev.options)

\* what a call is issued with: the truthy options of its request, and for the
\* others whatever the calls before it left in the configuration of proModel
IssuedWithLeftovers == Issued => generationConfig = Configure(ev.configBefore, ev.options)

\* a call that leaves the temperature out is issued with the temperature of
\* an earlier request
IssuedWithEarlierTemperature ==
  Issued /\ ev.options.temperature = Undefined /\ generationConfig.temperature = 3
\* a call that asks for temperature 0 is issued with the default
ZeroTemperatureIgnored ==
  Issued /\ ev.options.temperature = 0 /\ generationConfig.temperature = DefaultTemperature


\* C21: a summarize request whose validator matches the etag stored for its
\* key leaves the entry of the key as it was: summary, timestamp and etag
C21_MatchingValidatorKeepsEntry ==
  (Handled /\ ev.inmMatch) => cache[ev.key] = ev.entryBefore

\* what the route does with the entry on a matching validator, up to the
\* upstream call: the request is handled as a miss, so a text that generateText
\* still has in its own cache is stored over the entry with the time of the
\* request; otherwise the entry stays until the upstream call resolves
MatchingValidatorRestamps ==
  (Handled /\ ev.inmMatch) =>
    cache[ev.key] = IF ev.gen = "cached" /\ ev.summary # ""
                    THEN CacheResponse(ev.entryBefore, ev.summary, ev.time)
                    ELSE ev.entryBefore

\* a request with a matching validator moved the timestamp of the entry
MatchingValidatorMovedTimestamp ==
  /\ Handled /\ ev.inmMatch
  /\ cache[ev.key].timestamp > ev.entryBefore.timestamp


\* C22: an admission check changes nothing of the breaker (failure counter,
\* lastFailureTime, isOpen) and appends nothing to the window: all it does to
\* the state is drop the timestamps that have left the window
C22_CheckChangesNoBreakerState ==
  Checked =>
    /\ failures = ev.failuresBefore
    /\ isOpen = ev.openBefore
    /\ lastFailureTime = ev.time - ev.sinceFailure
    /\ Len(requests) = ev.inWindowBefore

\* what a check does: it prunes the window, appends nothing and leaves
\* lastFailureTime; it leaves the breaker too, unless it finds it open with
\* the cooldown over, and then it closes it and sets the failure counter to 0
CheckClosesAfterCooldown ==
  Checked =>
    /\ lastFailureTime = ev.time - ev.sinceFailure
    /\ Len(requests) = ev.inWindowBefore
    /\ IF ev.openBefore /\ ev.sinceFailure > resetTimeout
       THEN ~isOpen /\ failures = 0
       ELSE isOpen = ev.openBefore /\ failures = ev.failuresBefore

\* a check closed the breaker and cleared the failure counter
CheckClosedBreaker ==
  Checked /\ ev.openBefore /\ ev.failuresBefore >= failureThreshold /\ ~isOpen /\ failures = 0


\* a generateText call found a fresh entry for its key
FoundFresh == ev.op = "generate" /\ ev.freshBefore

\* C23: a generateText call that finds a fresh entry for its key returns the
\* cached text with no admission check and no upstream call: the window (not
\* even pruned) and the breaker are as before, also while the breaker is open
\* or the window is full
C23_FreshHitTouchesNothing ==
  FoundFresh =>
    /\ ev.outcome = "cached"
    /\ ev.text = ev.cachedBefore.text
    /\ calls = ev.callsBefore
    /\ InFlightCount = ev.inflightBefore
    /\ requests = ev.requestsBefore
    /\ failures = ev.failuresBefore
    /\ isOpen = ev.openBefore
    /\ lastFailureTime = ev.time - ev.sinceFailure
    /\ responseCache[ev.key] = ev.cachedBefore

\* C23 witness: a call is served from the cache while the breaker is open and
\* its cooldown is not over
C23_Witness ==
  /\ FoundFresh /\ ev.outcome = "cached" /\ ev.text = "s1"
  /\ ev.openBefore /\ ev.sinceFailure <= resetTimeout
  /\ isOpen

\* a call is served from the cache while the window is full
CachedWhileWindowFull ==
  FoundFresh /\ ev.outcome = "cached" /\ ev.inWindowBefore >= maxRequests


\* a summarize request found an entry for its key, and carried no validator
\* or one that is not the etag of the entry
LookedUp == Handled /\ ev.entryBefore.present /\ ~ev.inmMatch

\* C24: for a lookup with no matching validator the age of the entry alone
\* decides: up to an hour the entry is served as fresh, above an hour and up
\* to 24 hours it is served as stale, above 24 hours nothing is served from it
\* and the entry is removed
C24_LookupByAge ==
  LookedUp =>
    LET age == ev.time - ev.entryBefore.timestamp
        served == /\ ev.status = 200
                  /\ ev.summary = ev.entryBefore.summary
                  /\ ev.etag = ev.entryBefore.etag
    IN
    /\ (age <= 60 * 60 * 1000) <=> (served /\ ev.xcache = "HIT")
    /\ (age > 60 * 60 * 1000 /\ age <= 24 * 60 * 60 * 1000)
         <=> (served /\ ev.xcache = "STALE")
    /\ (age > 24 * 60 * 60 * 1000)
         <=> (ev.xcache \notin {"HIT", "STALE"} /\ cache[ev.key] # ev.entryBefore)

\* C24 witness: an entry more than 24 hours old is removed by the lookup
C24_Witness ==
  /\ LookedUp
  /\ ev.time - ev.entryBefore.timestamp > 24 * 60 * 60 * 1000
  /\ cache[ev.key] = NoEntry

\* an entry of exactly an hour is served as fresh, one of exactly 24 hours as
\* stale
ServedAtOneHour ==
  LookedUp /\ ev.time - ev.entryBefore.timestamp = 60 * 60 * 1000 /\ ev.xcache = "HIT"
ServedAtOneDay ==
  LookedUp /\ ev.time - ev.entryBefore.timestamp = 24 * 60 * 60 * 1000 /\ ev.xcache = "STALE"


\* fractions: a < b, and a within the bounds of the pacing interval
Less(a, b) == a[1] * b[2] < b[1] * a[2]
WithinBounds(q) == MIN_INTERVAL * q[2] <= q[1] /\ q[1] <= MAX_INTERVAL * q[2]

\* a step of the pacing interval: it grows only in a request the guard
\* rejects, to 1.5 times its value or MAX_INTERVAL, whichever is less, and
\* shrinks only in a request the guard lets pass, to 0.8 times its value or
\* MIN_INTERVAL, whichever is more
PacedStep ==
  LET n == currentInterval[1]
      d == currentInterval[2]
      n2 == currentInterval'[1]
      d2 == currentInterval'[2]
      guard == ev'.op = "post" /\ ev'.stage = "guard"
  IN
  /\ Less(currentInterval, currentInterval') =>
       /\ guard /\ ~ev'.passed
       /\ IF 3 * n <= 2 * MAX_INTERVAL * d
          THEN 2 * d * n2 = 3 * n * d2
          ELSE n2 = MAX_INTERVAL * d2
  /\ Less(currentInterval', currentInterval) =>
       /\ guard /\ ev'.passed
       /\ IF 4 * n >= 5 * MIN_INTERVAL * d
          THEN 5 * d * n2 = 4 * n * d2
          ELSE n2 = MIN_INTERVAL * d2

\* C25: the pacing interval is within [MIN_INTERVAL, MAX_INTERVAL] in every
\* state; it grows (times 1.5, capped) only when the guard rejects a request
\* and shrinks (times 0.8, floored) only when a request passes the guard
C25_PacingIntervalBounded == [](WithinBounds(currentInterval)) /\ [][PacedStep]_vars

\* C25 witness: rejections have brought the interval to MAX_INTERVAL
C25_Witness ==
  /\ ev.op = "post" /\ ev.stage = "guard" /\ ~ev.passed
  /\ currentInterval = <<MAX_INTERVAL, 1>>

\* a request that passed the guard brought the interval down from MAX_INTERVAL
ShrunkFromMax ==
  /\ ev.op = "post" /\ ev.stage = "guard" /\ ev.passed
  /\ currentInterval = <<8000, 1>>


\* an admission check that follows a denied one with no outcome recorded in
\* between, made exactly as long after it as its retryAfter said
RetriedOnTime ==
  Checked /\ ev.afterDenial /\ ev.time = ev.denialAt + ev.denialRetryAfter

\* C26: a check denied with retryAfter = r, followed by r ms in which no
\* attempt is recorded, is followed by a check that is allowed, whether the
\* open breaker or the full window denied
C26_RetryAfterIsEnough == RetriedOnTime => ev.outcome = "issued"

\* what holds of the retry: after a denial by the full window it is allowed;
\* after a denial by the open breaker it is denied again, with retryAfter =
\* 0, and a retry one millisecond later is allowed if the window has room
RetryAfterIsEnoughForWindow ==
  /\ (RetriedOnTime /\ ev.denialCause = "window") => ev.outcome = "issued"
  /\ (RetriedOnTime /\ ev.denialCause = "breaker") =>
       (ev.outcome = "denied" /\ ev.retryAfter = 0)
  /\ (Checked /\ ev.afterDenial /\ ev.denialCause = "breaker"
        /\ ev.time > ev.denialAt + ev.denialRetryAfter
        /\ ev.inWindowBefore < maxRequests) => ev.outcome = "issued"

RetryAfterWindowDenial ==
  RetriedOnTime /\ ev.denialCause = "window" /\ ev.time > ev.denialAt /\ ev.outcome = "issued"
RetryAfterBreakerDenial ==
  RetriedOnTime /\ ev.denialCause = "breaker" /\ ev.time > ev.denialAt /\ ev.outcome = "denied"


\* the route answered a request whose upstream call failed with status 429
Upstream429Answered == Resolved /\ ev.origin = "post" /\ ev.res = "429"

\* C27: every rate-limit outcome of generateText, an admission denial or an
\* upstream failure with status 429, is answered by the summarize route with
\* status 429, never 500
C27_RateLimitOutcomesGet429 ==
  (DeniedInForeground \/ Upstream429Answered) => ev.status = 429

\* what the route answers: 429 to an admission denial, whose error names the
\* rate limit, and 500 to an upstream 429, whose error ("Too many requests")
\* does not
DenialGets429Upstream429Gets500 ==
  /\ DeniedInForeground => ev.status = 429
  /\ Upstream429Answered => (ev.status = 500 /\ ev.error = "Too many requests")

Upstream429Got500 == Upstream429Answered /\ ev.status = 500
DenialGot429 == DeniedInForeground /\ ev.status = 429


\* C28: in every state the failure counter is at least 0, and the breaker is
\* open whenever the counter is at least 3
C28_CounterAtThresholdMeansOpen ==
  failures >= 0 /\ (failures >= failureThreshold => isOpen)

\* C28 witness: a success was recorded with the counter above the threshold;
\* it left the counter at the threshold and the breaker open
C28_Witness ==
  /\ Resolved /\ ev.res = "ok"
  /\ ev.failuresBefore = failureThreshold + 1
  /\ failures = failureThreshold /\ isOpen


\* a generateText call was denied admission
Denied == Checked /\ ev.outcome = "denied"

\* C29: a generateText call that is denied admission issues no upstream call,
\* appends no timestamp to the window and changes neither the failure counter
\* nor lastFailureTime
C29_DenialTouchesNothing ==
  Denied =>
    /\ calls = ev.callsBefore
    /\ InFlightCount = ev.inflightBefore
    /\ requests = Prune(ev.requestsBefore, ev.time)
    /\ failures = ev.failuresBefore
    /\ lastFailureTime = ev.time - ev.sinceFailure

\* what a denied call leaves alone: it issues no upstream call, appends no
\* timestamp and keeps lastFailureTime; it keeps the failure counter and the
\* breaker too, unless the full window denies it after the check found the
\* breaker open with its cooldown over and closed it
DenialClosesAfterCooldown ==
  Denied =>
    /\ calls = ev.callsBefore
    /\ InFlightCount = ev.inflightBefore
    /\ requests = Prune(ev.requestsBefore, ev.time)
    /\ lastFailureTime = ev.time - ev.sinceFailure
    /\ IF ev.openBefore /\ ev.sinceFailure > resetTimeout
       THEN ev.cause = "window" /\ failures = 0 /\ ~isOpen
       ELSE failures = ev.failuresBefore /\ isOpen = ev.openBefore

\* a call denied by the full window cleared the failure counter
DenialClearedCounter ==
  Denied /\ ev.cause = "window" /\ ev.failuresBefore > 0 /\ failures = 0


\* an upstream call failed
Failed == Resolved /\ ev.res # "ok"

\* C30: neither cache ever stores an error result: every entry holds the
\* text of a successful generation; a call that fails or is denied leaves the
\* entries of its key in both caches as they were, a summarize request that
\* is denied writes no entry, and the call for that key that comes next goes
\* to admission again
C30_ErrorsAreNeverCached ==
  /\ \A k \in AllKeys :
       /\ responseCache[k].present => responseCache[k].text \in Texts
       /\ cache[k].present => cache[k].summary \in Texts \ {""}
  /\ Failed => /\ responseCache[ev.key] = ev.cachedBefore
               /\ cache[ev.key] = ev.entryBefore
  /\ Denied => responseCache[ev.key] = ev.cachedBefore
  /\ (Handled /\ ev.gen = "denied" /\ cache[ev.key].present)
       => cache[ev.key] = ev.entryBefore
  /\ (ev.op = "generate" /\ ev.afterMiss) => ~ev.freshBefore

\* the refresh of a stale entry failed and the entry is as it was
C30_Witness ==
  /\ Failed /\ ev.origin = "refresh"
  /\ ev.entryBefore.present /\ cache[ev.key] = ev.entryBefore
  /\ ev.cachedBefore.present /\ responseCache[ev.key] = ev.cachedBefore

\* the call that follows a failed call for the same prompt is checked for
\* admission
CheckedAfterFailure ==
  ev.op = "generate" /\ ev.afterMiss /\ ~ev.afterDenial /\ ev.outcome = "issued"

\* a summarize request was denied admission and wrote no entry
DeniedWroteNothing ==
  Handled /\ ev.gen = "denied" /\ ~cache[ev.key].present

====
